---- MODULE Spec2Model ----
(***************************************************************************)
(* Model of couplingMUIFn (ParaSiF, FEniCS structure solver): the MUI      *)
(* coupling functions MUI_Sampler_Define, MUI_Fetch, getCofR, ForceInterp,  *)
(* MUI_Push and MUI_Commit_only.                                           *)
(*                                                                         *)
(* The coupling interface (mui4py) is a black box: every call the code     *)
(* issues on it is appended to the log `calls`, and every value a fetch    *)
(* returns is an input drawn from a small set.                             *)
(*                                                                         *)
(* Floating-point numbers are modelled by exact rationals <<n, d>> in      *)
(* lowest terms with d > 0; a denominator 0 stands for the non-finite      *)
(* results of numpy's division by zero (<<1,0>> inf, <<-1,0>> -inf,        *)
(* <<0,0>> nan).                                                           *)
(***************************************************************************)
EXTENDS Integers, Sequences, FiniteSets, TLC

(***************************************************************************)
(* Bounds of the model                                                     *)
(***************************************************************************)
\* largest sub-iteration index the driver reaches
MaxIter == 4
\* largest retention depth forgetTStepsMUI() that is configured
MaxForget == 2
\* largest number of support points handed to ForceInterp on its own
MaxPts == 3

(***************************************************************************)
(* Rational arithmetic                                                     *)
(***************************************************************************)
Abs(x) == IF x < 0 THEN -x ELSE x

Sgn(x) == IF x < 0 THEN -1 ELSE IF x > 0 THEN 1 ELSE 0

RECURSIVE Gcd(_, _)
Gcd(a, b) == IF b = 0 THEN a ELSE Gcd(b, a % b)

\* the rational n/d in lowest terms; d = 0 gives inf, -inf or nan
Rat(n, d) ==
    IF d = 0 THEN <<Sgn(n), 0>>
    ELSE LET g == Gcd(Abs(n), Abs(d))
             s == IF d < 0 THEN -1 ELSE 1
         IN  <<s * (n \div g), s * (d \div g)>>

R(i) == <<i, 1>>

IsFinite(a) == a[2] # 0

NaN == <<0, 0>>

\* a[2] and b[2] are brought to their least common multiple before adding
RAdd(a, b) ==
    IF IsFinite(a) /\ IsFinite(b)
    THEN LET g == Gcd(a[2], b[2])
         IN  Rat(a[1] * (b[2] \div g) + b[1] * (a[2] \div g), (a[2] \div g) * b[2])
    ELSE IF IsFinite(a) THEN b
    ELSE IF IsFinite(b) THEN a
    ELSE IF a = b THEN a ELSE NaN

RNeg(a) == <<-a[1], a[2]>>

RSub(a, b) == RAdd(a, RNeg(b))

\* common factors are cancelled crosswise before multiplying
RMul(a, b) ==
    IF IsFinite(a) /\ IsFinite(b)
    THEN LET g1 == Gcd(Abs(a[1]), b[2])
             g2 == Gcd(Abs(b[1]), a[2])
         IN  Rat((a[1] \div g1) * (b[1] \div g2), (a[2] \div g2) * (b[2] \div g1))
    ELSE <<Sgn(a[1]) * Sgn(b[1]), 0>>

\* numpy float64 division: x/0 is inf, -inf or nan, never an exception
RDiv(a, b) ==
    IF a = NaN \/ b = NaN THEN NaN
    ELSE IF IsFinite(a) /\ IsFinite(b)
    THEN IF b[1] = 0 THEN <<Sgn(a[1]), 0>>
         ELSE RMul(a, <<Sgn(b[1]) * b[2], Abs(b[1])>>)
    ELSE IF IsFinite(b) THEN <<a[1] * (IF b[1] < 0 THEN -1 ELSE 1), 0>>
    ELSE IF IsFinite(a) THEN R(0) ELSE NaN

\* a < b; inf and -inf compare as in IEEE arithmetic, nan compares false
RLess(a, b) ==
    IF IsFinite(a) /\ IsFinite(b) THEN a[1] * b[2] < b[1] * a[2]
    ELSE a # NaN /\ b # NaN
         /\ (IF IsFinite(a) THEN 0 ELSE a[1]) < (IF IsFinite(b) THEN 0 ELSE b[1])

RMax(a, b) == IF RLess(a, b) THEN b ELSE a

\* the exact square root of a rational whose numerator and denominator are squares
RSqrt(a) ==
    <<CHOOSE r \in 0..a[1] : r * r = a[1], CHOOSE r \in 1..a[2] : r * r = a[2]>>

Zero3 == <<R(0), R(0), R(0)>>

Vec(x, y, z) == <<R(x), R(y), R(z)>>

VAdd(u, v) == [a \in 1..3 |-> RAdd(u[a], v[a])]

VSub(u, v) == [a \in 1..3 |-> RSub(u[a], v[a])]

VScale(u, s) == [a \in 1..3 |-> RMul(u[a], s)]

RECURSIVE RSum(_)
RSum(s) == IF s = <<>> THEN R(0) ELSE RAdd(Head(s), RSum(Tail(s)))

RECURSIVE VSum(_)
VSum(s) == IF s = <<>> THEN Zero3 ELSE VAdd(Head(s), VSum(Tail(s)))

(***************************************************************************)
(* The mesh: local degrees of freedom and their coordinates                *)
(***************************************************************************)
NDof == 4

Dofs == 1..NDof

\* index -> 3-D point; a planar 3 x 4 grid, so that all distances are rational
dofs_to_xyz == [p \in Dofs |-> Vec(3 * ((p - 1) % 2), 4 * ((p - 1) \div 2), 0)]

\* the coordinate list handed to MUI_Fetch / MUI_Push beside a DOF list
xyz_of(list) == [i \in 1..Len(list) |-> dofs_to_xyz[list[i]]]

Origin == Zero3

Axes == 1..3

VARIABLES
    cfg,                  \* the configuration options (self.iMUI...(), ...)
    dofs_fetch_list,      \* ordered fetch DOF set of this partition
    dofs_push_list,       \* ordered push DOF set of this partition
    areaf_vec,            \* per-DOF area weight
    tF_apply_vec,         \* applied-load buffer: DOF -> axis -> value
    s_sampler,            \* spatial sampler
    t_sampler,            \* temporal sampler
    total_Sub_Iteration,  \* the driver's sub-iteration counter
    calls,                \* middleware calls issued by the latest operation
    reports,              \* "FENICS ERROR" diagnostics printed by the latest operation
    lastOp,               \* the latest operation, its inputs and its pre-state
    commits,              \* every index committed so far, in order
    forgets,              \* every forget threshold issued so far, in order
    files,                \* this rank's files under outputFolderName()/RBFMatrix
    aborted,              \* an uncaught exception has ended the run
    ifaces3d              \* the coupling interface self.ifaces3d["threeDInterface0"]

vars == <<cfg, dofs_fetch_list, dofs_push_list, areaf_vec, tF_apply_vec,
          s_sampler, t_sampler, total_Sub_Iteration, calls, reports, lastOp,
          commits, forgets, files, aborted, ifaces3d>>

(***************************************************************************)
(* Calls on the coupling interface self.ifaces3d["threeDInterface0"]       *)
(***************************************************************************)
CommitCall(t) == [op |-> "commit", t |-> t]

ForgetCall(t) == [op |-> "forget", t |-> t]

SetMemoryCall(k) == [op |-> "set_memory", k |-> k]

PushCall(chan, pt, val) == [op |-> "push", chan |-> chan, pt |-> pt, val |-> val]

PushManyCall(chan, pts, vals) ==
    [op |-> "push_many", chan |-> chan, pts |-> pts, vals |-> vals]

FetchCall(chan, pt, t, ss, ts) ==
    [op |-> "fetch", chan |-> chan, pt |-> pt, t |-> t, ss |-> ss, ts |-> ts]

FetchManyCall(chan, pts, t, ss, ts) ==
    [op |-> "fetch_many", chan |-> chan, pts |-> pts, t |-> t, ss |-> ss, ts |-> ts]

AnnounceSendCall(box) == [op |-> "announce_send_span", box |-> box]

AnnounceRecvCall(box) == [op |-> "announce_recv_span", box |-> box]

\* the positions of the calls of `log` whose operation is in `ops`
Positions(log, ops) == {i \in 1..Len(log) : log[i].op \in ops}

PushOps == {"push", "push_many"}

FetchOps == {"fetch", "fetch_many"}

(***************************************************************************)
(* Displacement fields handed to MUI_Push: planar rigid motions            *)
(*   u(x) = Rot_q(x) - x + t,  q quarter turns about the z axis            *)
(***************************************************************************)
QuarterTurn(x) == <<RNeg(x[2]), x[1], x[3]>>

displacement_at(f, x) ==
    VAdd(VSub(IF f.q = 1 THEN QuarterTurn(x) ELSE x, x), f.t)

DispFields ==
    {[t |-> Vec(tx, ty, 0), q |-> q] : tx \in {0, 2}, ty \in {0, 1}, q \in {0, 1}}

\* displacement_function.vector().get_local()[a-1::3][p]
d_vec(f, a, p) == displacement_at(f, dofs_to_xyz[p])[a]

(***************************************************************************)
(* MUI_Push, rigid-body branch: best-fit rotation of the four reference    *)
(* points.  An angle atan2(s, c) is represented by the direction <<s, c>>  *)
(* in lowest terms; <<0, 1>> is the angle 0.  For reference points and     *)
(* displacements in the plane z = 0 the rotation that align_vectors        *)
(* returns is about the z axis, by atan2(sum b x a, sum a . b).            *)
(***************************************************************************)
Angle(s, c) ==
    LET sn == s[1] * c[2]
        cn == c[1] * s[2]
        g  == Gcd(Abs(sn), Abs(cn))
    IN  IF g = 0 THEN <<0, 0>> ELSE <<sn \div g, cn \div g>>

AngleZero == <<0, 1>>

AngleNeg(a) == <<-a[1], a[2]>>

\* self.pointSDOFaX() ... self.pointSDOFdZ(): the four tracked reference points
init_array(c) == c.refPoints

\* Rotation.align_vectors(init_array, corners_new).as_euler('xyz')
euler_angles(init, new) ==
    LET cross == RSum([i \in 1..4 |->
                    RSub(RMul(new[i][1], init[i][2]), RMul(new[i][2], init[i][1]))])
        dot   == RSum([i \in 1..4 |->
                    RAdd(RMul(new[i][1], init[i][1]), RMul(new[i][2], init[i][2]))])
    IN  <<AngleZero, AngleZero, Angle(cross, dot)>>

Trans_of_first_point(disp_array) == disp_array[1]

\* np.mean(disp_array, axis=0)
Trans(disp_array) == VScale(VSum(disp_array), Rat(1, 4))

RigidBodyPushes(c, f) ==
    LET init == init_array(c)
        disp_array == [i \in 1..4 |-> displacement_at(f, init[i])]
        corners_new == [i \in 1..4 |-> VAdd(disp_array[i], init[i])]
        e == euler_angles(init, corners_new)
        T == Trans(disp_array)
    IN  << PushCall("dispX", Origin, T[1]),
           PushCall("dispY", Origin, T[2]),
           PushCall("dispZ", Origin, T[3]),
           PushCall("angleX", Origin, AngleNeg(e[1])),
           PushCall("angleY", Origin, AngleNeg(e[2])),
           PushCall("angleZ", Origin, AngleNeg(e[3])) >>

(***************************************************************************)
(* MUI_Push, per-DOF branch                                                *)
(***************************************************************************)
DispChan == <<"dispX", "dispY", "dispZ">>

iPush(c, a) == IF a = 1 THEN c.iPushX ELSE IF a = 2 THEN c.iPushY ELSE c.iPushZ

PushManyAxis(c, f, list, a) ==
    IF iPush(c, a)
    THEN <<PushManyCall(DispChan[a], xyz_of(list),
                        [i \in 1..Len(list) |-> d_vec(f, a, list[i])])>>
    ELSE <<>>

PushEachAxis_at_first_point(c, f, list, a) ==
    IF iPush(c, a)
    THEN [i \in 1..Len(list) |->
            PushCall(DispChan[a], xyz_of(list)[1], d_vec(f, a, list[i]))]
    ELSE <<>>

PushEachAxis(c, f, list, a) ==
    IF iPush(c, a)
    THEN [i \in 1..Len(list) |->
            PushCall(DispChan[a], xyz_of(list)[i], d_vec(f, a, list[i]))]
    ELSE <<>>

\* the calls of lines 599-682: the pushes of the selected mode and its commit
PushBody(c, f, list, n) ==
    IF c.iMUIPushMode = 0
    THEN IF c.iMUIPushMany
         THEN PushManyAxis(c, f, list, 1) \o PushManyAxis(c, f, list, 2)
              \o PushManyAxis(c, f, list, 3) \o <<CommitCall(n)>>
         ELSE PushEachAxis(c, f, list, 1) \o PushEachAxis(c, f, list, 2)
              \o PushEachAxis(c, f, list, 3) \o <<CommitCall(n)>>
    ELSE IF c.iMUIPushMode = 1
         THEN RigidBodyPushes(c, f) \o <<CommitCall(n)>>
         ELSE <<>>

(***************************************************************************)
(* Window management (lines 687-691 and 702-706)                           *)
(***************************************************************************)
ForgetDue(n, k) == (n - k) > 0 /\ k # 0

WindowCalls(c, n) ==
    IF ForgetDue(n, c.forgetTStepsMUI)
    THEN <<ForgetCall(n - c.forgetTStepsMUI), SetMemoryCall(c.forgetTStepsMUI)>>
    ELSE <<>>

\* the time indices of the calls `op` of a log, in order
RECURSIVE TimesOf(_, _)
TimesOf(log, op) ==
    IF log = <<>> THEN <<>>
    ELSE (IF Head(log).op = op THEN <<Head(log).t>> ELSE <<>>)
         \o TimesOf(Tail(log), op)

(***************************************************************************)
(* The interface object.  It is either the live middleware, whose answers  *)
(* are inputs of the model, or a pass-through stub that keeps what was     *)
(* pushed: a push is pending until the next commit stamps it with the      *)
(* commit's time index, forget(t) drops the frames up to t, and a fetch    *)
(* of a channel at a point and time index answers the value committed      *)
(* there.                                                                  *)
(***************************************************************************)
Live == [kind |-> "mui4py"]

EmptyStub == [kind |-> "stub", pending |-> {}, committed |-> {}]

Pushed(call) ==
    IF call.op = "push"
    THEN {[chan |-> call.chan, pt |-> call.pt, val |-> call.val]}
    ELSE {[chan |-> call.chan, pt |-> call.pts[i], val |-> call.vals[i]] :
             i \in 1..Len(call.pts)}

StubCall(iface, call) ==
    IF call.op \in PushOps
    THEN [iface EXCEPT !.pending = @ \cup Pushed(call)]
    ELSE IF call.op = "commit"
    THEN [iface EXCEPT !.pending = {},
                       !.committed = @ \cup
                           {[chan |-> e.chan, pt |-> e.pt, t |-> call.t, val |-> e.val] :
                               e \in iface.pending}]
    ELSE IF call.op = "forget"
    THEN [iface EXCEPT !.committed = {e \in @ : e.t > call.t}]
    ELSE iface

RECURSIVE StubApply(_, _)
StubApply(iface, log) ==
    IF log = <<>> THEN iface ELSE StubApply(StubCall(iface, Head(log)), Tail(log))

Issue(log, rep) ==
    /\ calls' = log
    /\ reports' = rep
    /\ commits' = commits \o TimesOf(log, "commit")
    /\ forgets' = forgets \o TimesOf(log, "forget")
    /\ ifaces3d' = IF ifaces3d.kind = "stub" THEN StubApply(ifaces3d, log) ELSE ifaces3d

(***************************************************************************)
(* MUI_Sampler_Define: spans, point lookup, samplers, commit of step zero  *)
(***************************************************************************)
\* sys.float_info.max: above every coordinate; represented by <<1, 0>>
float_max == <<1, 0>>

RECURSIVE span_min(_, _, _)
span_min(list, a, cur) ==
    IF list = <<>> THEN cur
    ELSE LET x == dofs_to_xyz[Head(list)][a]
         IN  span_min(Tail(list), a, IF RLess(x, cur) THEN x ELSE cur)

RECURSIVE span_max(_, _, _)
span_max(list, a, cur) ==
    IF list = <<>> THEN cur
    ELSE LET x == dofs_to_xyz[Head(list)][a]
         IN  span_max(Tail(list), a, IF RLess(cur, x) THEN x ELSE cur)

\* mui4py.geometry.Box([min_X, min_Y, min_Z], [max_X, max_Y, max_Z])
Box(list) ==
    [lo |-> [a \in Axes |-> span_min(list, a, float_max)],
     hi |-> [a \in Axes |-> span_max(list, a, RNeg(float_max))]]

\* the "max smaller than min" diagnostics, one per degenerate axis
RECURSIVE DegenerateReports(_, _, _)
DegenerateReports(side, box, a) ==
    IF a > 3 THEN <<>>
    ELSE (IF RLess(box.hi[a], box.lo[a])
          THEN <<[kind |-> "max smaller than min", side |-> side, axis |-> a]>>
          ELSE <<>>) \o DegenerateReports(side, box, a + 1)

\* position (from 0) of the first exact match of pt in xyz_fetch, else -999
point_ID(xyz_fetch, pt) ==
    IF \E ii \in 1..Len(xyz_fetch) : xyz_fetch[ii] = pt
    THEN (CHOOSE ii \in 1..Len(xyz_fetch) :
            /\ xyz_fetch[ii] = pt
            /\ \A jj \in 1..(ii - 1) : xyz_fetch[jj] # pt) - 1
    ELSE -999

point3dList(list) == xyz_of(list)

point3dGlobalID(xyz_fetch, list) ==
    [i \in 1..Len(list) |-> point_ID(xyz_fetch, dofs_to_xyz[list[i]])]

RECURSIVE LookupReports(_, _)
LookupReports(xyz_fetch, list) ==
    IF list = <<>> THEN <<>>
    ELSE (IF point_ID(xyz_fetch, dofs_to_xyz[Head(list)]) < 0
          THEN <<[kind |-> "cannot find point", pt |-> dofs_to_xyz[Head(list)]]>>
          ELSE <<>>) \o LookupReports(xyz_fetch, Tail(list))

AnnounceSend_always(list) == <<AnnounceSendCall(Box(list))>>

AnnounceSend(list) == IF Len(list) # 0 THEN <<AnnounceSendCall(Box(list))>> ELSE <<>>

AnnounceRecv_always(list) == <<AnnounceRecvCall(Box(list))>>

AnnounceRecv(list) == IF Len(list) # 0 THEN <<AnnounceRecvCall(Box(list))>> ELSE <<>>

NoSampler == [kind |-> "none"]

SpatialSampler_exact_otherwise(c, list) ==
    IF c.iMUIFetchMode = 0
    THEN [kind |-> "SamplerRbf", points |-> point3dList(list),
          readMatrix |-> c.iReadMatrix]
    ELSE [kind |-> "SamplerExact"]

\* the spatial sampler selected by iMUIFetchMode()
SpatialSampler(c, list) ==
    IF c.iMUIFetchMode = 0
    THEN [kind |-> "SamplerRbf", points |-> point3dList(list),
          readMatrix |-> c.iReadMatrix]
    ELSE IF c.iMUIFetchMode = 1
         THEN [kind |-> "SamplerExact"]
         ELSE [kind |-> "SamplerPseudoNearestNeighbor"]

\* mui4py.ChronoSamplerExact(), or TemporalSamplerExact() when the library lacks it
TemporalSampler(c) ==
    IF c.hasChronoSampler THEN [kind |-> "ChronoSamplerExact"]
    ELSE [kind |-> "TemporalSamplerExact"]

SamplerCall(sampler) == [op |-> "sampler", sampler |-> sampler]

(***************************************************************************)
(* The RBF matrix files (lines 258-334).  A file is a sequence of lines;   *)
(* a line of pointID.dat is the decimal text of an index, a line of        *)
(* Hmatrix.dat is a header line or a row of cells.                         *)
(***************************************************************************)
Absent == [exists |-> FALSE, lines |-> <<>>]

File(lines) == [exists |-> TRUE, lines |-> lines]

NoFiles == [Hmatrix |-> Absent, matrixSize |-> Absent, pointID |-> Absent,
            partitionSize |-> Absent]

\* inputFolderName()/RBFMatrix: partitionSize.dat and one folder per partition
NoSaved == [partitionSize |-> 0, folders |-> <<>>]

\* the characters of str(n) and of "%i" % n: digits, and 10 for the minus sign
RECURSIVE Digits(_)
Digits(n) ==
    IF n < 0 THEN <<10>> \o Digits(-n)
    ELSE IF n < 10 THEN <<n>> ELSE Digits(n \div 10) \o <<n % 10>>

\* Python's `sub in text` on strings
Contains(sub, text) ==
    \E k \in 0..(Len(text) - Len(sub)) : SubSeq(text, k + 1, k + Len(sub)) = sub

\* lines 284-289: number (from 0) of the first line of pointID.dat in which
\* str(id) occurs, or -99
result_line_number(pointIDfile, id) ==
    LET hits == {l \in 1..Len(pointIDfile) : Contains(Digits(id), Digits(pointIDfile[l]))}
    IN  IF hits = {} THEN -99
        ELSE (CHOOSE l \in hits : \A m \in hits : l <= m) - 1

\* lines 278-293: the first folder, from 0, whose pointID.dat holds a hit
RECURSIVE result_folder_number(_, _, _)
result_folder_number(inp, id, iFolder) ==
    IF iFolder >= inp.partitionSize THEN -99
    ELSE IF result_line_number(inp.folders[iFolder + 1].pointID, id) >= 0
         THEN iFolder
         ELSE result_folder_number(inp, id, iFolder + 1)

HeaderLines == 6

\* lines 275-311, over the fetch points from the i-th on; acc holds the rows
\* appended to the local Hmatrix.dat, numberOfCols, the diagnostics and
\* whether no exception was raised
RECURSIVE ReuseRows(_, _, _, _)
ReuseRows(inp, ids, i, acc) ==
    IF i > Len(ids) \/ ~acc.ok THEN acc
    ELSE IF inp.partitionSize = 0
    THEN \* result_line_number is read before it was ever assigned
         [acc EXCEPT !.ok = FALSE]
    ELSE LET folder == result_folder_number(inp, ids[i], 0)
         IN  IF folder < 0
             THEN \* the diagnostic names point_ID, the index of the last fetch
                  \* point; then open(.../-99/Hmatrix.dat) raises
                  [acc EXCEPT !.reports = @ \o <<[kind |-> "Cannot find Point ID",
                                                  id |-> ids[Len(ids)]]>>,
                              !.ok = FALSE]
             ELSE LET H == inp.folders[folder + 1].Hmatrix
                      l == result_line_number(inp.folders[folder + 1].pointID, ids[i])
                           + HeaderLines + 1
                  IN  IF l <= Len(H)
                      THEN ReuseRows(inp, ids, i + 1,
                              [acc EXCEPT !.rows = Append(@, H[l]),
                                          !.cols = IF @ < 0 THEN Len(H[l].cells) ELSE @])
                      ELSE ReuseRows(inp, ids, i + 1, acc)

Reuse(c, ids) ==
    ReuseRows(c.inputRBF, ids, 1, [rows |-> <<>>, cols |-> -99, reports |-> <<>>, ok |-> TRUE])

UsesRbf(c) == c.iMUIFetchMode = 0

\* an exception leaves MUI_Sampler_Define before the samplers are built
SetupRaises(c, ids) == UsesRbf(c) /\ c.iReadMatrix /\ ~Reuse(c, ids).ok

\* the files of this rank after the setup
SetupFiles(c, ids) ==
    IF ~UsesRbf(c) THEN NoFiles
    ELSE IF c.iReadMatrix
    THEN LET r == Reuse(c, ids)
         IN  [Hmatrix |-> IF r.rows = <<>> THEN Absent ELSE File(r.rows),
              matrixSize |-> IF r.ok
                             THEN File(<<r.cols, Len(ids), 0, 0, Len(ids), r.cols>>)
                             ELSE Absent,
              pointID |-> IF r.ok THEN File(ids) ELSE Absent,
              partitionSize |-> Absent]
    ELSE [Hmatrix |-> Absent, matrixSize |-> Absent, pointID |-> File(ids),
          partitionSize |-> IF c.rank = 0 THEN File(<<c.size>>) ELSE Absent]

SetupCalls(c, ids, fetch, push) ==
    AnnounceSend(push) \o AnnounceRecv(fetch)
    \o (IF SetupRaises(c, ids) THEN <<>>
        ELSE <<SamplerCall(SpatialSampler(c, fetch)), SamplerCall(TemporalSampler(c)),
               CommitCall(0)>>)

SetupReports(c, xyz_fetch, fetch, push) ==
    DegenerateReports("send", Box(push), 1)
    \o LookupReports(xyz_fetch, fetch)
    \o DegenerateReports("recv", Box(fetch), 1)
    \o (IF UsesRbf(c) /\ c.iReadMatrix
        THEN Reuse(c, point3dGlobalID(xyz_fetch, fetch)).reports ELSE <<>>)

Constructed == lastOp.name = "MUI_Init"

MUI_Sampler_Define(xyz_fetch) ==
    /\ Constructed
    /\ LET ids == point3dGlobalID(xyz_fetch, dofs_fetch_list)
       IN  IF cfg.iMUICoupling
           THEN /\ Issue(SetupCalls(cfg, ids, dofs_fetch_list, dofs_push_list),
                         SetupReports(cfg, xyz_fetch, dofs_fetch_list, dofs_push_list))
                /\ files' = SetupFiles(cfg, ids)
                /\ aborted' = SetupRaises(cfg, ids)
                /\ IF SetupRaises(cfg, ids)
                   THEN UNCHANGED <<s_sampler, t_sampler>>
                   ELSE /\ s_sampler' = SpatialSampler(cfg, dofs_fetch_list)
                        /\ t_sampler' = TemporalSampler(cfg)
           ELSE /\ Issue(<<>>, <<>>)
                /\ UNCHANGED <<s_sampler, t_sampler, files, aborted>>
    /\ lastOp' = [name |-> "MUI_Sampler_Define", n |-> 0, before |-> tF_apply_vec,
                  input |-> xyz_fetch]
    /\ UNCHANGED <<cfg, dofs_fetch_list, dofs_push_list, areaf_vec, tF_apply_vec,
                   total_Sub_Iteration>>

\* the driver runs the exchange cycle only with coupling on and after the setup
Ready == cfg.iMUICoupling /\ ~Constructed /\ ~aborted

MUI_Push(f) ==
    /\ Ready
    /\ total_Sub_Iteration < MaxIter
    /\ LET n == total_Sub_Iteration + 1
       IN  /\ total_Sub_Iteration' = n
           /\ Issue(PushBody(cfg, f, dofs_push_list, n) \o WindowCalls(cfg, n), <<>>)
           /\ lastOp' = [name |-> "MUI_Push", n |-> n, before |-> tF_apply_vec,
                         input |-> f]
    /\ UNCHANGED <<cfg, dofs_fetch_list, dofs_push_list, areaf_vec, tF_apply_vec,
                   s_sampler, t_sampler, files, aborted>>

(***************************************************************************)
(* getCofR and ForceInterp                                                 *)
(***************************************************************************)
\* smallVal = 1e-32 in the source.  TLC's integers are 32 bits wide, so the
\* value is represented by 10^-3: like 1e-32 it is positive and below every
\* nonzero distance between the integer coordinates used here, which is all
\* that the floor in ForceInterp and the regularisation in getCofR rest on.
smallVal == <<1, 1000>>

Cross(u, v) ==
    << RSub(RMul(u[2], v[3]), RMul(u[3], v[2])),
       RSub(RMul(u[3], v[1]), RMul(u[1], v[3])),
       RSub(RMul(u[1], v[2]), RMul(u[2], v[1])) >>

Dot(u, v) == RAdd(RAdd(RMul(u[1], v[1]), RMul(u[2], v[2])), RMul(u[3], v[3]))

\* np.linalg.lstsq(A, B, rcond=None) for A = [[F1,-F0,e],[-F2,e,F0],[e,F2,-F1]],
\* B = [M2, M1, M0]: the rows state L x F + e L = M.  For F # 0 the singular
\* value of order e falls below lstsq's cut-off and the result is the
\* minimum-norm least-squares solution of L x F = M, which is F x M / |F|^2;
\* for F = 0 the matrix is e times a permutation and L = M / e.
lstsq(F, M) ==
    IF F = Zero3 THEN VScale(M, RDiv(R(1), smallVal))
    ELSE VScale(Cross(F, M), RDiv(R(1), Dot(F, F)))

getCofR_unseeded(F, M, CofR_old) == lstsq(F, M)

\* CofR = CofR_old + L.T
getCofR(F, M, CofR_old) == VAdd(CofR_old, lstsq(F, M))

distance_unfloored(pt, CofR) ==
    LET Loc == VSub(pt, CofR) IN RSqrt(Dot(Loc, Loc))

\* np.maximum(np.sqrt(np.sum(np.power(Loc, 2), axis=1)), smallVal)
distance(pt, CofR) ==
    LET Loc == VSub(pt, CofR) IN RMax(RSqrt(Dot(Loc, Loc)), smallVal)

\* W = np.sum(distance**(-1)) * distance;  F_out[i] = F_in * W[i]**(-1)
ForceInterp(F_in, CofR, SpprtLoc) ==
    LET dist == [i \in 1..Len(SpprtLoc) |-> distance(SpprtLoc[i], CofR)]
        S == RSum([i \in 1..Len(SpprtLoc) |-> RDiv(R(1), dist[i])])
        W == [i \in 1..Len(SpprtLoc) |-> RMul(S, dist[i])]
    IN  [i \in 1..Len(SpprtLoc) |-> VScale(F_in, RDiv(R(1), W[i]))]

(***************************************************************************)
(* MUI_Fetch                                                               *)
(***************************************************************************)
fetch_iteration_unlagged(c, n) == n

fetch_iteration(c, n) == IF c.iparallelFSICoupling THEN n - 1 ELSE n

FetchGuard_from_minus_one(fi) == fi >= -1

\* line 370: the whole fetch is skipped unless this holds
FetchGuard(fi) == fi >= 0

ForceChan == <<"forceX", "forceY", "forceZ">>

ResultantChan ==
    <<"CofRX", "CofRY", "CofRZ", "forceX", "forceY", "forceZ",
      "momentX", "momentY", "momentZ">>

\* lines 458-465 and 511-518: traction from load, zero where the area is zero
AreaCheckedDivide(load, area) ==
    IF area = R(0) THEN Zero3 ELSE [a \in Axes |-> RDiv(load[a], area)]

\* lines 560-562: the division without the test for a zero area
AreaDivide(load, area) == [a \in Axes |-> RDiv(load[a], area)]

\* lines 495-505 and 544-554: under-relaxation, or overwrite
Relax(c, applied, temp) ==
    IF c.iparallelFSICoupling
    THEN [a \in Axes |-> RAdd(applied[a],
                              RMul(RSub(temp[a], applied[a]), c.undRelxCpl))]
    ELSE temp

\* line 363: temp_vec_function_temp is bound to the array self.tF_apply_vec
\* itself, not to a copy of it: reading it reads the buffer as it is now
temp_vec_function_temp(tF) == tF

Fetched_forceX_only(vals, i, a) == vals[i][1]

\* the value fetched on channel a for the i-th fetch point
Fetched(vals, i, a) == vals[i][a]

RECURSIVE StoreMany_shifted(_, _, _, _)
StoreMany_shifted(tF, list, vals, i) ==
    IF i > Len(list) THEN tF
    ELSE StoreMany_shifted([tF EXCEPT ![(list[i] % NDof) + 1] =
                                [a \in Axes |-> Fetched(vals, i, a)]],
                           list, vals, i + 1)

\* lines 475-492: temp_vec_function_temp[a::3][dofs_fetch_list] = fetch_many(...)
RECURSIVE StoreMany(_, _, _, _)
StoreMany(tF, list, vals, i) ==
    IF i > Len(list) THEN tF
    ELSE StoreMany([tF EXCEPT ![list[i]] =
                        [a \in Axes |-> Fetched(vals, i, a)]], list, vals, i + 1)

\* lines 494-518: the loop over the fetch DOFs after the batched fetch
RECURSIVE ApplyMany(_, _, _, _, _)
ApplyMany(c, area, tF, list, i) ==
    IF i > Len(list) THEN tF
    ELSE LET p == list[i]
             relaxed == Relax(c, tF[p], temp_vec_function_temp(tF)[p])
         IN  ApplyMany(c, area,
                       [tF EXCEPT ![p] = AreaCheckedDivide(relaxed, area[p])],
                       list, i + 1)

\* lines 522-562: fetch, relax and divide, one DOF after the other
RECURSIVE ApplyEach(_, _, _, _, _, _)
ApplyEach(c, area, tF, list, vals, i) ==
    IF i > Len(list) THEN tF
    ELSE LET p == list[i]
             stored == [tF EXCEPT ![p] = [a \in Axes |-> Fetched(vals, i, a)]]
             relaxed == Relax(c, stored[p], temp_vec_function_temp(stored)[p])
         IN  ApplyEach(c, area,
                       [stored EXCEPT ![p] = AreaDivide(relaxed, area[p])],
                       list, vals, i + 1)

RECURSIVE ApplyResultant_accumulating(_, _, _, _, _)
ApplyResultant_accumulating(area, tF, list, F_out, i) ==
    IF i > Len(list) THEN tF
    ELSE LET p == list[i]
         IN  ApplyResultant_accumulating(area,
                [tF EXCEPT ![p] = AreaCheckedDivide(VAdd(tF[p], F_out[i]), area[p])],
                list, F_out, i + 1)

\* lines 445-465: the redistributed resultant, written over the buffer
RECURSIVE ApplyResultant(_, _, _, _, _)
ApplyResultant(area, tF, list, F_out, i) ==
    IF i > Len(list) THEN tF
    ELSE LET p == list[i]
         IN  ApplyResultant(area,
                            [tF EXCEPT ![p] = AreaCheckedDivide(F_out[i], area[p])],
                            list, F_out, i + 1)

\* lines 360 and 375-392: the local CofR is created as (0,0,0) in every call
\* and its three components are then overwritten by the values fetched on
\* CofRX, CofRY, CofRZ; this is the CofR_old that line 434 hands to getCofR
CofR_old(res) == res.CofR

\* the centre of reaction after line 434
CofR_new(res) == getCofR(res.force, res.moment, CofR_old(res))

\* the buffer after a fetch of the per-DOF values vals or the resultant res
FetchLoad(c, area, tF, list, vals, res) ==
    IF c.iMUIFetchMode = 1
    THEN LET CofR == CofR_new(res)
             F_out == ForceInterp(res.force, CofR, xyz_of(list))
         IN  ApplyResultant(area, tF, list, F_out, 1)
    ELSE IF c.iMUIFetchMany
         THEN ApplyMany(c, area, StoreMany(tF, list, vals, 1), list, 1)
         ELSE ApplyEach(c, area, tF, list, vals, 1)

RECURSIVE FetchEachCalls(_, _, _, _, _)
FetchEachCalls(list, fi, ss, ts, i) ==
    IF i > Len(list) THEN <<>>
    ELSE [a \in Axes |-> FetchCall(ForceChan[a], xyz_of(list)[i], fi, ss, ts)]
         \o FetchEachCalls(list, fi, ss, ts, i + 1)

FetchCalls_without_temporal(c, list, fi, ss, ts) ==
    IF c.iMUIFetchMode = 1
    THEN [j \in 1..9 |-> FetchCall(ResultantChan[j], Origin, fi, ss, NoSampler)]
    ELSE IF c.iMUIFetchMany
         THEN [a \in Axes |->
                  FetchManyCall(ForceChan[a], xyz_of(list), fi, ss, NoSampler)]
         ELSE FetchEachCalls(list, fi, ss, NoSampler, 1)

FetchCalls_at_first_dof(c, list, fi, ss, ts) ==
    IF c.iMUIFetchMode = 1
    THEN [j \in 1..9 |->
            FetchCall(ResultantChan[j],
                      IF list = <<>> THEN Origin ELSE xyz_of(list)[1], fi, ss, ts)]
    ELSE IF c.iMUIFetchMany
         THEN [a \in Axes |-> FetchManyCall(ForceChan[a], xyz_of(list), fi, ss, ts)]
         ELSE FetchEachCalls(list, fi, ss, ts, 1)

\* the middleware calls of one fetch at time index fi
FetchCalls(c, list, fi, ss, ts) ==
    IF c.iMUIFetchMode = 1
    THEN [j \in 1..9 |-> FetchCall(ResultantChan[j], Origin, fi, ss, ts)]
    ELSE IF c.iMUIFetchMany
         THEN [a \in Axes |-> FetchManyCall(ForceChan[a], xyz_of(list), fi, ss, ts)]
         ELSE FetchEachCalls(list, fi, ss, ts, 1)

\* no centre of reaction: no resultant fetch has computed one
NoCofR == <<>>

\* the centre of reaction the latest resultant fetch computed, as far as the
\* record of the latest operation tells
PriorCofR == IF lastOp.name = "MUI_Fetch" THEN lastOp.CofR ELSE NoCofR

MUI_Fetch(n, vals, res) ==
    /\ Ready
    /\ LET fi == fetch_iteration(cfg, n)
           resultant == FetchGuard(fi) /\ cfg.iMUIFetchMode = 1
       IN  /\ IF FetchGuard(fi)
              THEN /\ Issue(FetchCalls(cfg, dofs_fetch_list, fi, s_sampler, t_sampler),
                            <<>>)
                   /\ tF_apply_vec' = FetchLoad(cfg, areaf_vec, tF_apply_vec,
                                                dofs_fetch_list, vals, res)
              ELSE /\ Issue(<<>>, <<>>)
                   /\ UNCHANGED tF_apply_vec
           /\ lastOp' = [name |-> "MUI_Fetch", n |-> n, before |-> tF_apply_vec,
                         input |-> [vals |-> vals, res |-> res],
                         CofR_old |-> IF resultant THEN CofR_old(res) ELSE NoCofR,
                         CofR |-> IF resultant THEN CofR_new(res) ELSE PriorCofR,
                         prior |-> PriorCofR]
    /\ UNCHANGED <<cfg, dofs_fetch_list, dofs_push_list, areaf_vec,
                   s_sampler, t_sampler, total_Sub_Iteration, files, aborted>>

MUI_Commit_only ==
    /\ Ready
    /\ total_Sub_Iteration < MaxIter
    /\ LET n == total_Sub_Iteration + 1
       IN  /\ total_Sub_Iteration' = n
           /\ Issue(<<CommitCall(n)>> \o WindowCalls(cfg, n), <<>>)
           /\ lastOp' = [name |-> "MUI_Commit_only", n |-> n,
                         before |-> tF_apply_vec, input |-> <<>>]
    /\ UNCHANGED <<cfg, dofs_fetch_list, dofs_push_list, areaf_vec, tF_apply_vec,
                   s_sampler, t_sampler, files, aborted>>

(***************************************************************************)
(* Configurations and initial states                                       *)
(***************************************************************************)
RefCorners == <<Vec(0, 0, 0), Vec(3, 0, 0), Vec(0, 4, 0), Vec(3, 4, 0)>>

BaseCfg ==
    [iMUICoupling |-> TRUE, iMUIFetchMode |-> 2, iMUIFetchMany |-> TRUE,
     iparallelFSICoupling |-> FALSE, undRelxCpl |-> R(1),
     iMUIPushMode |-> 0, iMUIPushMany |-> TRUE,
     iPushX |-> TRUE, iPushY |-> TRUE, iPushZ |-> TRUE,
     forgetTStepsMUI |-> 0, iReadMatrix |-> FALSE, hasChronoSampler |-> TRUE,
     refPoints |-> RefCorners, rank |-> 0, size |-> 2, inputRBF |-> NoSaved]

ZeroLoad == [p \in Dofs |-> Zero3]

UnitArea == [p \in Dofs |-> R(1)]

\* the object after MUI_Init with configuration c and the given mesh data,
\* over the interface object iface; the applied-load buffer is created by the
\* solver, outside this class, and holds what the solver put there
ConstructsLoaded(iface, c, fetch, push, area, load) ==
    /\ ifaces3d = iface
    /\ cfg = c
    /\ dofs_fetch_list = fetch
    /\ dofs_push_list = push
    /\ areaf_vec = area
    /\ tF_apply_vec = load
    /\ s_sampler = NoSampler
    /\ t_sampler = NoSampler
    /\ total_Sub_Iteration = 0
    /\ calls = <<>>
    /\ reports = <<>>
    /\ lastOp = [name |-> "MUI_Init", n |-> 0, before |-> load, input |-> <<>>]
    /\ commits = <<>>
    /\ forgets = <<>>
    /\ files = NoFiles
    /\ aborted = FALSE

\* the same with a buffer of zeros
ConstructsOver(iface, c, fetch, push, area) ==
    ConstructsLoaded(iface, c, fetch, push, area, ZeroLoad)

Constructs(c, fetch, push, area) == ConstructsOver(Live, c, fetch, push, area)

\* global fetch coordinate lists: all four grid points; a short list that
\* lacks two of them; a long one that gives indices of two digits
FullGlobal == [i \in 1..4 |-> RefCorners[i]]

LongGlobal ==
    [i \in 1..13 |-> IF i = 2 THEN Vec(0, 0, 0)
                     ELSE IF i = 3 THEN Vec(3, 0, 0)
                     ELSE IF i = 13 THEN Vec(0, 4, 0) ELSE Vec(9, 9, i)]

GlobalFetchLists == {FullGlobal, <<Vec(3, 4, 0), Vec(0, 0, 0)>>, LongGlobal}

\* a saved Hmatrix.dat: six header lines, then one row of two cells per point
SavedH(ids) ==
    [l \in 1..(HeaderLines + Len(ids)) |->
        IF l <= HeaderLines THEN [kind |-> "header", cells |-> <<l>>]
        ELSE [kind |-> "row", cells |-> <<ids[l - HeaderLines], l - HeaderLines>>]]

SavedFolder(ids) == [pointID |-> ids, Hmatrix |-> SavedH(ids)]

\* the longest saved pointID.dat
MaxSavedLines == 2

\* the saved matrices a reuse run may find in inputFolderName()/RBFMatrix
SavedSets ==
    { [partitionSize |-> 2, folders |-> <<SavedFolder(<<0, 1>>), SavedFolder(<<2, 3>>)>>],
      [partitionSize |-> 2, folders |-> <<SavedFolder(<<12, 2>>), SavedFolder(<<1>>)>>] }

PushLists == {<<>>, <<2>>, <<4, 2>>}

PushCfgs ==
    {[BaseCfg EXCEPT !.iMUIPushMode = m, !.iMUIPushMany = many,
                     !.iPushX = px, !.iPushY = py, !.iPushZ = pz,
                     !.forgetTStepsMUI = k] :
        m \in 0..2, many \in BOOLEAN, px \in BOOLEAN, py \in BOOLEAN,
        pz \in BOOLEAN, k \in 0..MaxForget}

InitPush ==
    \E c \in PushCfgs, push \in PushLists : Constructs(c, <<1, 3>>, push, UnitArea)

NextPush ==
    \/ MUI_Sampler_Define(FullGlobal)
    \/ \E f \in DispFields : MUI_Push(f)
    \/ MUI_Commit_only

SpecPush == InitPush /\ [][NextPush]_vars

(***************************************************************************)
(* Claims on MUI_Push and MUI_Commit_only                                  *)
(***************************************************************************)
IsPush == lastOp.name = "MUI_Push"

IsCommitOnly == lastOp.name = "MUI_Commit_only"

CommitPositions == Positions(calls, {"commit"})

\* C1: every call of MUI_Push issues exactly one commit, at the index
\* total_Sub_Iteration of the call, whatever the push-mode code, and that
\* commit comes after every push of the call.
C1_PushCommitsOnce ==
    IsPush =>
        /\ Cardinality(CommitPositions) = 1
        /\ \A i \in CommitPositions :
              /\ calls[i].t = lastOp.n
              /\ \A j \in Positions(calls, PushOps) : j < i

\* the indices committed by the exchange cycle (the setup's commit of step
\* zero left out) and their number
CycleCommits == SelectSeq(commits, LAMBDA t : t # 0)

\* C2: when the commits made so far are exactly at the indices 1..N, in
\* increasing order, then with retention depth 0 no forget was issued, and with
\* depth k > 0 the forget thresholds issued so far are exactly 1..N-k, each
\* once, in increasing order.
C2_ForgetWindow ==
    LET N == Len(CycleCommits)
        k == cfg.forgetTStepsMUI
    IN  (N >= 1 /\ CycleCommits = [i \in 1..N |-> i]) =>
            forgets = IF k = 0 \/ N <= k THEN <<>> ELSE [i \in 1..(N - k) |-> i]

\* C3: one call of MUI_Push or MUI_Commit_only at index n with retention depth
\* k issues forget(n - k) immediately followed by set_memory(k) if and only if
\* k # 0 and n > k, and otherwise neither; when issued, both come after the
\* commit of the same call.
C3_ForgetAfterCommit ==
    (IsPush \/ IsCommitOnly) =>
        LET n == lastOp.n
            k == cfg.forgetTStepsMUI
            F == Positions(calls, {"forget"})
            M == Positions(calls, {"set_memory"})
        IN  IF k # 0 /\ n > k
            THEN /\ Cardinality(F) = 1 /\ Cardinality(M) = 1
                 /\ \A i \in F :
                       /\ calls[i].t = n - k
                       /\ i + 1 \in M
                       /\ calls[i + 1].k = k
                       /\ \E j \in CommitPositions : j < i /\ calls[j].t > calls[i].t
            ELSE F = {} /\ M = {}

(***************************************************************************)
(* The fetch side: configurations, inputs and specification                *)
(***************************************************************************)
\* largest sub-iteration index handed to MUI_Fetch
MaxFetchIndex == 2

FetchIndices == -1..MaxFetchIndex

FetchLists == {<<>>, <<2>>, <<3, 1>>}

AreaVecs == {UnitArea, [p \in Dofs |-> IF p = 3 THEN R(0) ELSE R(2)]}

\* force vectors a per-DOF fetch may return
ForceVals == {Vec(0, 0, 0), Vec(2, -4, 6), Vec(4, 2, -2)}

\* the nine values a resultant fetch may return
Resultants ==
    { [CofR |-> Vec(0, 0, 0), force |-> Vec(0, 0, 0), moment |-> Vec(0, 0, 0)],
      [CofR |-> Vec(0, 0, 0), force |-> Vec(0, 0, 2), moment |-> Vec(8, -6, 0)],
      [CofR |-> Vec(3, 0, 0), force |-> Vec(2, 4, 6), moment |-> Vec(0, 0, 0)] }

NoResultant == [CofR |-> Zero3, force |-> Zero3, moment |-> Zero3]

\* what the middleware may return to one MUI_Fetch
FetchInputs(c, list) ==
    IF c.iMUIFetchMode = 1
    THEN {[vals |-> <<>>, res |-> r] : r \in Resultants}
    ELSE {[vals |-> v, res |-> NoResultant] : v \in [1..Len(list) -> ForceVals]}

FetchCfgs ==
    {[BaseCfg EXCEPT !.iMUIFetchMode = m, !.iMUIFetchMany = many,
                     !.iparallelFSICoupling = par, !.undRelxCpl = r] :
        m \in 0..2, many \in BOOLEAN, par \in BOOLEAN, r \in {Rat(1, 2), R(1)}}

InitFetch ==
    \E c \in FetchCfgs, fetch \in FetchLists, area \in AreaVecs :
        Constructs(c, fetch, <<4>>, area)

NextFetch ==
    \/ MUI_Sampler_Define(FullGlobal)
    \/ \E n \in FetchIndices, in \in FetchInputs(cfg, dofs_fetch_list) :
          MUI_Fetch(n, in.vals, in.res)

SpecFetch == InitFetch /\ [][NextFetch]_vars

(***************************************************************************)
(* Claims on MUI_Fetch                                                     *)
(***************************************************************************)
IsFetch == lastOp.name = "MUI_Fetch"

\* the time index the fetch is to use: lagged by one under implicit coupling
ResolvedIndex == IF cfg.iparallelFSICoupling THEN lastOp.n - 1 ELSE lastOp.n

Fetches == IsFetch /\ ResolvedIndex >= 0

PerDof == cfg.iMUIFetchMode # 1

FetchPositions == 1..Len(dofs_fetch_list)

\* C4: every middleware call of one MUI_Fetch is a fetch at one and the same
\* time index: total_Sub_Iteration - 1 under implicit/parallel coupling and
\* total_Sub_Iteration otherwise, in all three fetch modes.
C4_FetchTimeIndex ==
    IsFetch => \A i \in 1..Len(calls) :
                  calls[i].op \in FetchOps /\ calls[i].t = ResolvedIndex

C4_Witness ==
    /\ IsFetch /\ cfg.iparallelFSICoupling
    /\ ~cfg.iMUIFetchMany /\ PerDof
    /\ Len(calls) = 6

\* C5: a MUI_Fetch whose resolved index is negative issues no middleware call
\* and leaves every entry of the applied-load buffer as it was.
C5_NegativeIndexNoOp ==
    (IsFetch /\ ResolvedIndex < 0) =>
        calls = <<>> /\ tF_apply_vec = lastOp.before

C5_Witness ==
    /\ IsFetch /\ ResolvedIndex < 0
    /\ cfg.iparallelFSICoupling /\ lastOp.n = 0
    /\ tF_apply_vec # ZeroLoad

\* C6: a per-DOF fetch under implicit/parallel coupling with relaxation
\* factor r sets the load of every fetch DOF (of area weight 1) to
\* old + (new - old) * r, old being the buffer value before the fetch and new
\* the value fetched.
C6_UnderRelaxation ==
    (Fetches /\ PerDof /\ cfg.iparallelFSICoupling) =>
        \A i \in FetchPositions : \A a \in Axes :
            LET p == dofs_fetch_list[i]
                old == lastOp.before[p][a]
                new == lastOp.input.vals[i][a]
            IN  areaf_vec[p] = R(1) =>
                    tF_apply_vec[p][a] =
                        RAdd(old, RMul(RSub(new, old), cfg.undRelxCpl))

\* C7: a per-DOF fetch under explicit coupling overwrites the load of every
\* fetch DOF: with area weight 1 the load is exactly the value just fetched,
\* whatever was fetched before and whatever the buffer held.
C7_ExplicitOverwrite ==
    (Fetches /\ PerDof /\ ~cfg.iparallelFSICoupling) =>
        \A i \in FetchPositions :
            LET p == dofs_fetch_list[i]
            IN  areaf_vec[p] = R(1) => tF_apply_vec[p] = lastOp.input.vals[i]

\* a second fetch, returning v1 after an earlier fetch left v0 # v1 in the buffer
C7_Witness ==
    /\ Fetches /\ PerDof /\ ~cfg.iparallelFSICoupling
    /\ \E i \in FetchPositions :
          LET p == dofs_fetch_list[i]
          IN  /\ areaf_vec[p] = R(1)
              /\ lastOp.before[p] \notin {Zero3, lastOp.input.vals[i]}
              /\ tF_apply_vec[p] = lastOp.input.vals[i]

\* C8: after a MUI_Fetch that fetches, every fetch DOF of area weight 0 has
\* load 0 on all three axes and no load is the result of a division by zero,
\* in all three fetch modes.
C8_ZeroAreaZeroLoad ==
    Fetches =>
        \A i \in FetchPositions :
            LET p == dofs_fetch_list[i]
            IN  /\ areaf_vec[p] = R(0) => tF_apply_vec[p] = Zero3
                /\ \A a \in Axes : IsFinite(tF_apply_vec[p][a])

(***************************************************************************)
(* ForceInterp on its own: inputs drawn from bounded sets                  *)
(***************************************************************************)
SupportPoints == {RefCorners[i] : i \in 1..4}

SupportLists == UNION {[1..m -> SupportPoints] : m \in 1..MaxPts}

Centres == SupportPoints

CallForceInterp(F_in, CofR, SpprtLoc) ==
    /\ Constructed
    /\ lastOp' = [name |-> "ForceInterp", F_in |-> F_in, CofR |-> CofR,
                  SpprtLoc |-> SpprtLoc,
                  F_out |-> ForceInterp(F_in, CofR, SpprtLoc)]
    /\ UNCHANGED <<cfg, dofs_fetch_list, dofs_push_list, areaf_vec, tF_apply_vec,
                   s_sampler, t_sampler, total_Sub_Iteration, calls, reports,
                   commits, forgets, files, aborted, ifaces3d>>

InitInterp == Constructs(BaseCfg, <<>>, <<>>, UnitArea)

NextInterp ==
    \E F_in \in ForceVals, CofR \in Centres, SpprtLoc \in SupportLists :
        CallForceInterp(F_in, CofR, SpprtLoc)

SpecInterp == InitInterp /\ [][NextInterp]_vars

IsForceInterp == lastOp.name = "ForceInterp"

\* the Euclidean distance of pt to c, floored at smallVal
FlooredDistance(pt, c) ==
    LET d == RSqrt(Dot(VSub(pt, c), VSub(pt, c)))
    IN  IF RLess(d, smallVal) THEN smallVal ELSE d

\* C9: for every non-empty point set, force F and centre of reaction,
\* ForceInterp returns F_i = F * (1/d_i) / sum_j (1/d_j) with d_i the distance
\* of point i to the centre floored at a minimum, so the per-point forces sum
\* to F; a single point receives F, and a point at the centre divides by
\* nothing that is zero.
C9_ForceInterpSum ==
    IsForceInterp =>
        LET pts == lastOp.SpprtLoc
            F == lastOp.F_in
            out == lastOp.F_out
            inv(i) == RDiv(R(1), FlooredDistance(pts[i], lastOp.CofR))
            total == RSum([j \in 1..Len(pts) |-> inv(j)])
        IN  /\ Len(out) = Len(pts)
            /\ \A i \in 1..Len(pts) : \A a \in Axes :
                  /\ IsFinite(out[i][a])
                  /\ out[i][a] = RDiv(RMul(F[a], inv(i)), total)
            /\ VSum(out) = F
            /\ Len(pts) = 1 => out[1] = F

\* three points, one of them exactly at the centre, and a nonzero force
C9_Witness ==
    /\ IsForceInterp
    /\ Len(lastOp.SpprtLoc) = 3
    /\ lastOp.F_in # Zero3
    /\ lastOp.SpprtLoc[2] = lastOp.CofR
    /\ lastOp.SpprtLoc[1] # lastOp.CofR
    /\ VSum(lastOp.F_out) = lastOp.F_in

(***************************************************************************)
(* The setup on its own                                                    *)
(***************************************************************************)
SetupCfgs ==
    {[BaseCfg EXCEPT !.iMUICoupling = on, !.iMUIFetchMode = m,
                     !.iReadMatrix = rd, !.hasChronoSampler = ch,
                     !.rank = rk, !.inputRBF = saved] :
        on \in BOOLEAN, m \in 0..2, rd \in BOOLEAN, ch \in BOOLEAN,
        rk \in 0..1, saved \in SavedSets}

InitSetup ==
    \E c \in SetupCfgs, fetch \in FetchLists, push \in PushLists :
        Constructs(c, fetch, push, UnitArea)

NextSetup == \E xyz_fetch \in GlobalFetchLists : MUI_Sampler_Define(xyz_fetch)

SpecSetup == InitSetup /\ [][NextSetup]_vars

IsSetup == lastOp.name = "MUI_Sampler_Define"

\* C10: with coupling enabled MUI_Sampler_Define issues, in this order, the
\* send-span announcement (if any), the receive-span announcement (if any),
\* the construction of the spatial and of the temporal sampler, and then
\* exactly one commit, at time index 0, with no push and no fetch before it or
\* with it; with coupling disabled it makes no middleware call.
C10_SetupOrder ==
    IsSetup =>
        IF cfg.iMUICoupling
        THEN LET n == Len(calls)
                 S == Positions(calls, {"announce_send_span"})
                 Rv == Positions(calls, {"announce_recv_span"})
             IN  /\ n >= 3
                 /\ calls[n] = CommitCall(0)
                 /\ CommitPositions = {n}
                 /\ calls[n - 1].op = "sampler" /\ calls[n - 1].sampler = t_sampler
                 /\ calls[n - 2].op = "sampler" /\ calls[n - 2].sampler = s_sampler
                 /\ Positions(calls, PushOps \cup FetchOps) = {}
                 /\ S \cup Rv = 1..(n - 3)
                 /\ Cardinality(S) <= 1 /\ Cardinality(Rv) <= 1
                 /\ \A i \in S : \A j \in Rv : i < j
        ELSE calls = <<>>

C10_Witness ==
    /\ IsSetup /\ cfg.iMUICoupling
    /\ Len(calls) = 5
    /\ calls[1].op = "announce_send_span"
    /\ calls[2].op = "announce_recv_span"
    /\ calls[5] = CommitCall(0)

(***************************************************************************)
(* Claims on the spans and the point lookup of MUI_Sampler_Define          *)
(***************************************************************************)
SetupRuns == IsSetup /\ cfg.iMUICoupling

SendPositions == Positions(calls, {"announce_send_span"})

RecvPositions == Positions(calls, {"announce_recv_span"})

\* the coordinates on axis a of the points of a DOF set
CoordSet(list, a) == {dofs_to_xyz[list[i]][a] : i \in 1..Len(list)}

Least(S) == CHOOSE x \in S : \A y \in S : ~RLess(y, x)

Greatest(S) == CHOOSE x \in S : \A y \in S : ~RLess(x, y)

\* the axis-aligned bounding box of a non-empty DOF set
BoundingBox(list) ==
    [lo |-> [a \in Axes |-> Least(CoordSet(list, a))],
     hi |-> [a \in Axes |-> Greatest(CoordSet(list, a))]]

FiniteBox(box) == \A a \in Axes : IsFinite(box.lo[a]) /\ IsFinite(box.hi[a])

\* C11: with coupling on, MUI_Sampler_Define announces the send span if and
\* only if the push DOF set is non-empty and the receive span if and only if
\* the fetch DOF set is non-empty; an announced span is announced once and its
\* box is the componentwise minimum and maximum of the coordinates of the set,
\* never the initial sentinel bounds.
C11_SpanAnnouncements ==
    SetupRuns =>
        /\ Cardinality(SendPositions) = (IF dofs_push_list # <<>> THEN 1 ELSE 0)
        /\ Cardinality(RecvPositions) = (IF dofs_fetch_list # <<>> THEN 1 ELSE 0)
        /\ \A i \in SendPositions :
              calls[i].box = BoundingBox(dofs_push_list) /\ FiniteBox(calls[i].box)
        /\ \A i \in RecvPositions :
              calls[i].box = BoundingBox(dofs_fetch_list) /\ FiniteBox(calls[i].box)

\* two push points, no fetch point: one send span over both, no receive span
C11_Witness ==
    /\ SetupRuns
    /\ dofs_push_list = <<4, 2>> /\ dofs_fetch_list = <<>>
    /\ calls[1] = AnnounceSendCall([lo |-> Vec(3, 0, 0), hi |-> Vec(3, 4, 0)])
    /\ RecvPositions = {}

\* the global indices of the fetch points, as the setup resolved them
GlobalIDs == point3dGlobalID(lastOp.input, dofs_fetch_list)

\* the fetch points with no exact match in the global fetch coordinate list
Misses == {i \in FetchPositions : GlobalIDs[i] < 0}

ReportsOf(kind) == {j \in 1..Len(reports) : reports[j].kind = kind}

\* C12: when a fetch point has no exact match in the global fetch coordinate
\* list, the setup emits one report for each such point and does not abort:
\* the sampler is built over all fetch points and the commit of index 0 is
\* issued.
C12_LookupMissContinues ==
    (SetupRuns /\ Misses # {}) =>
        /\ Cardinality(ReportsOf("cannot find point")) = Cardinality(Misses)
        /\ \A i \in Misses : \E j \in ReportsOf("cannot find point") :
              reports[j].pt = dofs_to_xyz[dofs_fetch_list[i]]
        /\ ~aborted
        /\ s_sampler = SpatialSampler(cfg, dofs_fetch_list)
        /\ calls[Len(calls)] = CommitCall(0)

DofList(side) == IF side = "send" THEN dofs_push_list ELSE dofs_fetch_list

\* max < min on some axis of the box the setup computed
DegenerateBox(list) ==
    \E a \in Axes : RLess(span_max(list, a, RNeg(float_max)), span_min(list, a, float_max))

DegenerateReported(side) ==
    {j \in ReportsOf("max smaller than min") : reports[j].side = side}

AnnouncePositions(side) == IF side = "send" THEN SendPositions ELSE RecvPositions

\* C17: whenever the setup detects a degenerate bounding box (max < min on
\* some axis) for the push or the fetch set, it reports a warning, does not
\* abort and still announces that span with the box as computed.
C17_DegenerateBoxAnnounced ==
    SetupRuns =>
        \A side \in {"send", "recv"} :
            DegenerateBox(DofList(side)) =>
                /\ DegenerateReported(side) # {}
                /\ ~aborted
                /\ \E i \in AnnouncePositions(side) :
                      calls[i].box = Box(DofList(side))

\* the axes on which the computed box of a DOF set has max < min
DegenerateAxes(list) ==
    {a \in Axes : RLess(span_max(list, a, RNeg(float_max)), span_min(list, a, float_max))}

\* C17 as amended: whenever the setup detects a degenerate bounding box for
\* the push or the fetch set, it reports one warning for each degenerate axis
\* and goes on; it announces that span, with the box as computed, only if the
\* set is non-empty.  An empty set always gives a box degenerate on all three
\* axes: three warnings and no announcement of that span, and the receive
\* span of a non-empty fetch set is still announced after it.
C17_DegenerateBoxSkipped ==
    SetupRuns =>
        \A side \in {"send", "recv"} :
            LET list == DofList(side)
            IN  /\ {reports[j].axis : j \in DegenerateReported(side)} = DegenerateAxes(list)
                /\ Cardinality(DegenerateReported(side)) = Cardinality(DegenerateAxes(list))
                /\ list = <<>> => DegenerateAxes(list) = Axes
                /\ DegenerateBox(list) =>
                      /\ AnnouncePositions(side) # {} <=> list # <<>>
                      /\ \A i \in AnnouncePositions(side) : calls[i].box = Box(list)
                      /\ (side = "send" /\ dofs_fetch_list # <<>>) =>
                            Cardinality(RecvPositions) = 1

\* an empty push set beside a fetch set of one point
C17_Witness ==
    /\ SetupRuns
    /\ dofs_push_list = <<>> /\ dofs_fetch_list = <<2>>
    /\ Cardinality(DegenerateReported("send")) = 3
    /\ SendPositions = {}
    /\ calls[1].op = "announce_recv_span"

(***************************************************************************)
(* Claims on the reuse of saved RBF matrices                               *)
(***************************************************************************)
ReusesMatrix == SetupRuns /\ UsesRbf(cfg) /\ cfg.iReadMatrix

\* the places <<partition, line>> of the saved pointID.dat files whose index
\* equals id
ExactHits(inp, id) ==
    {h \in (1..inp.partitionSize) \X (1..MaxSavedLines) :
        /\ h[2] <= Len(inp.folders[h[1]].pointID)
        /\ inp.folders[h[1]].pointID[h[2]] = id}

\* the saved row of the point whose index equals id: first partition, first line
ExactRow(inp, id) ==
    LET hits == ExactHits(inp, id)
        h == CHOOSE h \in hits :
                \A g \in hits : h[1] < g[1] \/ (h[1] = g[1] /\ h[2] <= g[2])
    IN  inp.folders[h[1]].Hmatrix[h[2] + HeaderLines]

\* C18: on the matrix-reuse path, when every fetch point's global index is
\* the index of a saved point, the local Hmatrix.dat holds, in fetch-point
\* order, one row per fetch point, the saved row of the point whose index
\* EQUALS the fetch point's global index, and matrixSize.dat records that
\* number of rows.
C18_ReuseRowsByEquality ==
    (ReusesMatrix /\ \A i \in FetchPositions : ExactHits(cfg.inputRBF, GlobalIDs[i]) # {}) =>
        /\ files.Hmatrix.lines =
              [i \in FetchPositions |-> ExactRow(cfg.inputRBF, GlobalIDs[i])]
        /\ files.matrixSize.exists
        /\ files.matrixSize.lines[2] = Len(dofs_fetch_list)
        /\ files.matrixSize.lines[5] = Len(dofs_fetch_list)

\* the fetch points whose global index occurs in no line of any saved
\* pointID.dat
ReuseMisses ==
    {i \in FetchPositions : result_folder_number(cfg.inputRBF, GlobalIDs[i], 0) < 0}

\* C19: on the matrix-reuse path, when a fetch point's global index is found
\* in no partition's pointID.dat, the setup emits a diagnostic and continues:
\* it does not abort, matrixSize.dat and pointID.dat are written, the sampler
\* is built and the commit of index 0 is issued.
C19_ReuseMissContinues ==
    (ReusesMatrix /\ ReuseMisses # {}) =>
        /\ ReportsOf("Cannot find Point ID") # {}
        /\ ~aborted
        /\ files.matrixSize.exists
        /\ files.pointID = File(GlobalIDs)
        /\ s_sampler = SpatialSampler(cfg, dofs_fetch_list)
        /\ calls[Len(calls)] = CommitCall(0)

(***************************************************************************)
(* Claims on the rigid-body push                                           *)
(***************************************************************************)
RigidPush == IsPush /\ cfg.iMUIPushMode = 1

\* the values pushed on a channel by the latest operation
PushedOn(chan) ==
    {calls[i].val : i \in {j \in Positions(calls, PushOps) : calls[j].chan = chan}}

\* C15: in rigid-body push mode, when the displacement field is a pure
\* translation t (all four reference points displaced by t), the pushed
\* translation is t and the three pushed angles are 0.
C15_PureTranslation ==
    (RigidPush /\ lastOp.input.q = 0) =>
        /\ \A a \in Axes : PushedOn(DispChan[a]) = {lastOp.input.t[a]}
        /\ PushedOn("angleX") = {AngleZero}
        /\ PushedOn("angleY") = {AngleZero}
        /\ PushedOn("angleZ") = {AngleZero}

RigidChan == <<"dispX", "dispY", "dispZ", "angleX", "angleY", "angleZ">>

\* C20: in rigid-body push mode one MUI_Push makes exactly six pushes, all
\* single-point pushes at the origin (0,0,0): the mean of the four reference
\* displacements on dispX, dispY, dispZ (surge, sway, heave) and the negated
\* Euler angles on angleX, angleY, angleZ (roll, pitch, yaw), whatever the
\* push DOF set; the commit of the call's index follows them.
C20_RigidBodySixPushes ==
    RigidPush =>
        LET ref == cfg.refPoints
            disp == [i \in 1..4 |-> displacement_at(lastOp.input, ref[i])]
            mean == [a \in Axes |-> RDiv(RSum([i \in 1..4 |-> disp[i][a]]), R(4))]
            e == euler_angles(ref, [i \in 1..4 |-> VAdd(disp[i], ref[i])])
        IN  /\ Positions(calls, PushOps) = 1..6
            /\ \A i \in 1..6 :
                  /\ calls[i].op = "push"
                  /\ calls[i].pt = Origin
                  /\ calls[i].chan = RigidChan[i]
            /\ \A a \in Axes :
                  /\ calls[a].val = mean[a]
                  /\ calls[3 + a].val = AngleNeg(e[a])
            /\ Len(calls) >= 7 /\ calls[7] = CommitCall(lastOp.n)

\* a quarter turn with a translation, pushed beside a push DOF set of two points
C20_Witness ==
    /\ RigidPush
    /\ dofs_push_list = <<4, 2>>
    /\ lastOp.input = [t |-> Vec(2, 1, 0), q |-> 1]
    /\ calls[1].val # R(0)
    /\ calls[6].val # AngleZero
    /\ calls[7] = CommitCall(lastOp.n)

(***************************************************************************)
(* Claims on the centre of reaction                                        *)
(***************************************************************************)
ResultantFetch == Fetches /\ cfg.iMUIFetchMode = 1

\* C13: in resultant mode the centre of reaction that seeds the least-squares
\* update of a fetch is the centre of reaction the previous resultant fetch
\* produced.
C13_CofRPersists ==
    (ResultantFetch /\ lastOp.prior # NoCofR) => lastOp.CofR_old = lastOp.prior

(***************************************************************************)
(* getCofR on its own: applied again and again to its own result           *)
(***************************************************************************)
\* largest number of successive applications
MaxCofRCalls == 3

CofRMoments == {Zero3, Vec(8, -6, 0), Vec(0, 2, 0)}

CofRSeeds == {Vec(0, 0, 0), Vec(3, 0, 0), Vec(-2, 5, 1)}

IsGetCofR == lastOp.name = "getCofR"

\* one application to the seed c; `origin` is the centre of reaction at the
\* start of the current run of `run` applications with zero moment
CallGetCofR(F, M, c) ==
    /\ Constructed \/ (IsGetCofR /\ lastOp.k < MaxCofRCalls /\ c = lastOp.CofR)
    /\ lastOp' = [name |-> "getCofR", F |-> F, M |-> M, CofR_old |-> c,
                  CofR |-> getCofR(F, M, c),
                  k |-> IF IsGetCofR THEN lastOp.k + 1 ELSE 1,
                  run |-> IF M # Zero3 THEN 0
                          ELSE IF IsGetCofR THEN lastOp.run + 1 ELSE 1,
                  origin |-> IF M = Zero3 /\ IsGetCofR /\ lastOp.run > 0
                             THEN lastOp.origin ELSE c]
    /\ UNCHANGED <<cfg, dofs_fetch_list, dofs_push_list, areaf_vec, tF_apply_vec,
                   s_sampler, t_sampler, total_Sub_Iteration, calls, reports,
                   commits, forgets, files, aborted, ifaces3d>>

InitCofR == Constructs(BaseCfg, <<>>, <<>>, UnitArea)

NextCofR ==
    \E F \in ForceVals, M \in CofRMoments,
       c \in IF IsGetCofR THEN {lastOp.CofR} ELSE CofRSeeds :
        CallGetCofR(F, M, c)

SpecCofR == InitCofR /\ [][NextCofR]_vars

\* C14: for every force F and every prior centre of reaction c,
\* getCofR(F, (0,0,0), c) returns c; hence after any number of successive
\* applications with zero moment the centre of reaction is the one the run
\* started from.
C14_ZeroMomentIdempotent ==
    (IsGetCofR /\ lastOp.M = Zero3) =>
        /\ lastOp.CofR = lastOp.CofR_old
        /\ lastOp.CofR = lastOp.origin

\* two applications with zero moment and a nonzero force, after one with a
\* nonzero moment that moved the centre away from the origin
C14_Witness ==
    /\ IsGetCofR
    /\ lastOp.k = 3 /\ lastOp.run = 2
    /\ lastOp.M = Zero3 /\ lastOp.F # Zero3
    /\ lastOp.CofR # Zero3
    /\ lastOp.CofR = lastOp.origin

(***************************************************************************)
(* Round trip: MUI_Push and MUI_Fetch over the pass-through stub, with the *)
(* same DOF set pushed and fetched                                         *)
(***************************************************************************)
\* the stub's answer to fetch(chan, pt, t, ...): the value committed on that
\* channel at that point and time index; 0.0 where nothing was committed
StubFetch(iface, chan, pt, t) ==
    LET hits == {e.val : e \in {x \in iface.committed :
                                   x.chan = chan /\ x.pt = pt /\ x.t = t}}
    IN  IF hits = {} THEN {R(0)} ELSE hits

\* the three answers to the fetches of the channels chans at pt
StubTriples(iface, chans, pt, t) ==
    {<<x, y, z>> : x \in StubFetch(iface, chans[1], pt, t),
                   y \in StubFetch(iface, chans[2], pt, t),
                   z \in StubFetch(iface, chans[3], pt, t)}

\* the answers to the per-DOF fetches of the fetch points from the i-th on
RECURSIVE StubVals(_, _, _, _)
StubVals(iface, list, fi, i) ==
    IF i > Len(list) THEN {<<>>}
    ELSE {<<h>> \o tl : h \in StubTriples(iface, ForceChan, xyz_of(list)[i], fi),
                        tl \in StubVals(iface, list, fi, i + 1)}

\* what the stub returns to the calls of one MUI_Fetch at time index fi
StubAnswers(iface, c, list, fi) ==
    IF c.iMUIFetchMode = 1
    THEN {[vals |-> <<>>, res |-> [CofR |-> cr, force |-> f, moment |-> m]] :
             cr \in StubTriples(iface, <<"CofRX", "CofRY", "CofRZ">>, Origin, fi),
             f \in StubTriples(iface, ForceChan, Origin, fi),
             m \in StubTriples(iface, <<"momentX", "momentY", "momentZ">>, Origin, fi)}
    ELSE {[vals |-> v, res |-> NoResultant] : v \in StubVals(iface, list, fi, 1)}

RoundLists == {<<2>>, <<4, 2>>}

RoundFields == {[t |-> Vec(2, 1, 0), q |-> 0], [t |-> Vec(0, 0, 0), q |-> 1]}

RoundCfgs ==
    {[BaseCfg EXCEPT !.iMUIFetchMode = m, !.iMUIFetchMany = many,
                     !.iparallelFSICoupling = par, !.iMUIPushMode = pm,
                     !.iMUIPushMany = pmany, !.forgetTStepsMUI = k] :
        m \in 1..2, many \in BOOLEAN, par \in BOOLEAN, pm \in 0..1,
        pmany \in BOOLEAN, k \in 0..1}

InitRound ==
    \E c \in RoundCfgs, list \in RoundLists :
        ConstructsOver(EmptyStub, c, list, list, UnitArea)

NextRound ==
    \/ MUI_Sampler_Define(FullGlobal)
    \/ \E f \in RoundFields : MUI_Push(f)
    \/ \E n \in FetchIndices :
          \E in \in StubAnswers(ifaces3d, cfg, dofs_fetch_list, fetch_iteration(cfg, n)) :
              MUI_Fetch(n, in.vals, in.res)

SpecRound == InitRound /\ [][NextRound]_vars

\* the per-DOF displacements the stub holds for time index t
DispFrame(t) ==
    {e \in ifaces3d.committed : e.t = t /\ e.chan \in {"dispX", "dispY", "dispZ"}}

AxisOf(chan) == CHOOSE a \in Axes : DispChan[a] = chan

\* C16: over the pass-through stub and with the exact sampler selected, after
\* MUI_Push has pushed and committed a per-DOF displacement set at index n, a
\* MUI_Fetch whose index resolves to n leaves, at every pushed point, exactly
\* the value that was pushed there.
C16_RoundTrip ==
    (Fetches /\ ifaces3d.kind = "stub" /\ s_sampler.kind = "SamplerExact"
        /\ cfg.iMUIPushMode = 0) =>
        \A e \in DispFrame(ResolvedIndex) :
            \E i \in FetchPositions :
                /\ xyz_of(dofs_fetch_list)[i] = e.pt
                /\ tF_apply_vec[dofs_fetch_list[i]][AxisOf(e.chan)] = e.val

(***************************************************************************)
(* Claims on the per-DOF push                                              *)
(***************************************************************************)
PerDofPush == IsPush /\ cfg.iMUIPushMode = 0

\* the <<channel, point, value>> triples one call pushes
TriplesOf(call) ==
    IF call.op = "push" THEN {<<call.chan, call.pt, call.val>>}
    ELSE {<<call.chan, call.pts[k], call.vals[k]>> : k \in 1..Len(call.pts)}

\* the triples the latest operation pushed
PushTriples == UNION {TriplesOf(calls[i]) : i \in Positions(calls, PushOps)}

EnabledAxes ==
    {a \in Axes : (a = 1 /\ cfg.iPushX) \/ (a = 2 /\ cfg.iPushY) \/ (a = 3 /\ cfg.iPushZ)}

\* C21: in per-DOF push mode, displacement component a is pushed for every
\* push-set DOF, one value per DOF at the coordinate of that DOF, if and only
\* if axis a is enabled, whatever the other two axes; the set of (channel,
\* point, value) pushes, all made before the commit, is the same in batched
\* and in individual push mode.
C21_PerDofPushes ==
    PerDofPush =>
        /\ PushTriples =
              {<<DispChan[a], dofs_to_xyz[dofs_push_list[i]],
                 displacement_at(lastOp.input, dofs_to_xyz[dofs_push_list[i]])[a]>> :
                    a \in EnabledAxes, i \in 1..Len(dofs_push_list)}
        /\ \A a \in Axes :
              Cardinality({t \in PushTriples : t[1] = DispChan[a]}) =
                  (IF a \in EnabledAxes THEN Len(dofs_push_list) ELSE 0)
        /\ \A i \in Positions(calls, {"push_many"}) :
              Len(calls[i].pts) = Len(calls[i].vals)
        /\ \A i \in Positions(calls, PushOps) : \A j \in CommitPositions : i < j
        /\ Cardinality(Positions(calls, PushOps)) =
              (IF cfg.iMUIPushMany THEN 1 ELSE Len(dofs_push_list))
                  * Cardinality(EnabledAxes)

\* individual pushes of two DOFs on the axes X and Z only
C21_Witness ==
    /\ PerDofPush /\ ~cfg.iMUIPushMany
    /\ cfg.iPushX /\ ~cfg.iPushY /\ cfg.iPushZ
    /\ dofs_push_list = <<4, 2>>
    /\ lastOp.input = [t |-> Vec(2, 1, 0), q |-> 1]
    /\ Cardinality(PushTriples) = 4
    /\ Len(calls) >= 5 /\ calls[5].op = "commit"

(***************************************************************************)
(* Claims on the fetch styles                                              *)
(***************************************************************************)
\* the configuration with the other per-DOF fetch style
OtherStyle == [cfg EXCEPT !.iMUIFetchMany = ~@]

\* C22: for the same fetched values, prior buffer, coupling flag, relaxation
\* factor and area weights, the batched and the individual per-DOF fetch
\* leave the same applied load at every fetch DOF.
C22_BatchedEqualsIndividual ==
    (Fetches /\ PerDof) =>
        \A i \in FetchPositions :
            LET p == dofs_fetch_list[i]
            IN  tF_apply_vec[p] =
                    FetchLoad(OtherStyle, areaf_vec, lastOp.before, dofs_fetch_list,
                              lastOp.input.vals, lastOp.input.res)[p]

\* the load the resultant res gives the i-th DOF of list: the force, shared
\* out by inverse distance to the updated centre of reaction, over the area
ResultantLoad(res, list, area, i) ==
    LET centre == VAdd(res.CofR, lstsq(res.force, res.moment))
        inv(j) == RDiv(R(1), FlooredDistance(xyz_of(list)[j], centre))
        share == RDiv(inv(i), RSum([j \in 1..Len(list) |-> inv(j)]))
    IN  IF area[list[i]] = R(0) THEN Zero3
        ELSE [a \in Axes |-> RDiv(RMul(res.force[a], share), area[list[i]])]

\* C23: one resultant fetch issues exactly nine middleware fetch calls, one
\* on each of CofRX/Y/Z, forceX/Y/Z, momentX/Y/Z, all at the reference point
\* (0,0,0) and the same time index, whatever the number of fetch DOFs; the
\* load of every fetch DOF is derived from the nine values fetched.
C23_NineFetches ==
    ResultantFetch =>
        /\ Len(calls) = 9
        /\ \A j \in 1..9 :
              /\ calls[j].op = "fetch"
              /\ calls[j].pt = Origin
              /\ calls[j].t = ResolvedIndex
        /\ \A ch \in {ResultantChan[j] : j \in 1..9} :
              Cardinality({j \in 1..Len(calls) : calls[j].chan = ch}) = 1
        /\ \A i \in FetchPositions :
              tF_apply_vec[dofs_fetch_list[i]] =
                  ResultantLoad(lastOp.input.res, dofs_fetch_list, areaf_vec, i)

\* a resultant fetch for two DOFs that leaves a load on DOF 1
C23_Witness ==
    /\ ResultantFetch
    /\ dofs_fetch_list = <<3, 1>>
    /\ Len(calls) = 9
    /\ tF_apply_vec[1] # Zero3

\* a resultant fetch with no fetch DOF at all
C23_WitnessNoDofs == ResultantFetch /\ dofs_fetch_list = <<>> /\ Len(calls) = 9

\* the configuration with implicit coupling off and no relaxation
Unrelaxed == [cfg EXCEPT !.iparallelFSICoupling = FALSE, !.undRelxCpl = R(1)]

\* C27: the load a resultant fetch applies does not depend on the buffer's
\* contents before the fetch, on the relaxation factor or on implicit
\* coupling: it is the load the same nine values give on an all-zero buffer
\* with explicit coupling and relaxation factor 1.
C27_ResultantNoRelaxation ==
    ResultantFetch =>
        \A i \in FetchPositions :
            LET p == dofs_fetch_list[i]
            IN  tF_apply_vec[p] =
                    FetchLoad(Unrelaxed, areaf_vec, ZeroLoad, dofs_fetch_list,
                              lastOp.input.vals, lastOp.input.res)[p]

\* a resultant fetch under implicit coupling with relaxation factor 1/2 on a
\* buffer that held another load, which it replaces
C27_Witness ==
    /\ ResultantFetch
    /\ cfg.iparallelFSICoupling /\ cfg.undRelxCpl = Rat(1, 2)
    /\ dofs_fetch_list = <<3, 1>>
    /\ lastOp.before[1] # Zero3
    /\ tF_apply_vec[1] # Zero3
    /\ tF_apply_vec[1] # lastOp.before[1]

(***************************************************************************)
(* Claims on the commit without a push                                     *)
(***************************************************************************)
WindowOps == {"commit", "forget", "set_memory"}

\* the commit, forget and set_memory calls of a log, in order
WindowPart(log) == SelectSeq(log, LAMBDA call : call.op \in WindowOps)

\* C24: MUI_Commit_only(n) issues exactly the commit / forget / set_memory
\* sequence that MUI_Push(n) issues for the same n and retention depth, and
\* no push and no fetch; so the two are interchangeable for the window.
C24_CommitOnlyAsPush ==
    /\ IsCommitOnly =>
          /\ Positions(calls, PushOps \cup FetchOps) = {}
          /\ \A f \in DispFields :
                calls = WindowPart(PushBody(cfg, f, dofs_push_list, lastOp.n)
                                   \o WindowCalls(cfg, lastOp.n))
    /\ IsPush =>
          WindowPart(calls) = <<CommitCall(lastOp.n)>> \o WindowCalls(cfg, lastOp.n)

(***************************************************************************)
(* The whole exchange cycle: the setup, then pushes, commits without a     *)
(* push and fetches in any order                                           *)
(***************************************************************************)
CycleCfgs ==
    {[BaseCfg EXCEPT !.iMUIFetchMode = m, !.iMUIFetchMany = many,
                     !.iparallelFSICoupling = par, !.undRelxCpl = Rat(1, 2),
                     !.iMUIPushMode = pm, !.forgetTStepsMUI = 1,
                     !.iReadMatrix = rd, !.hasChronoSampler = ch,
                     !.inputRBF = CHOOSE saved \in SavedSets : saved.folders[1].pointID = <<0, 1>>] :
        m \in 0..2, many \in BOOLEAN, par \in BOOLEAN, pm \in 0..2,
        rd \in BOOLEAN, ch \in BOOLEAN}

\* the buffer the solver hands over: zeros, or a load left by an earlier run
CycleLoads == {ZeroLoad, [p \in Dofs |-> Vec(p, 0, -p)]}

CycleFetchList == <<1>>

CycleField == [t |-> Vec(2, 1, 0), q |-> 1]

CycleGlobals == {FullGlobal, <<Vec(3, 4, 0), Vec(3, 0, 0)>>}

InitCycle ==
    \E c \in CycleCfgs, load \in CycleLoads :
        ConstructsLoaded(Live, c, CycleFetchList, <<2>>, UnitArea, load)

NextCycle ==
    \/ \E xyz_fetch \in CycleGlobals : MUI_Sampler_Define(xyz_fetch)
    \/ MUI_Push(CycleField)
    \/ MUI_Commit_only
    \/ \E in \in FetchInputs(cfg, dofs_fetch_list) :
          MUI_Fetch(total_Sub_Iteration, in.vals, in.res)

SpecCycle == InitCycle /\ [][NextCycle]_vars

(***************************************************************************)
(* Claims on what the operations leave alone                               *)
(***************************************************************************)
\* C25: the spatial and the temporal sampler are assigned once, by
\* MUI_Sampler_Define, from the unassigned state; no MUI_Fetch, MUI_Push or
\* MUI_Commit_only, in any order or number, assigns them again, and every
\* middleware fetch call passes the two samplers the setup chose.
C25_SamplersFixed ==
    /\ [](IsFetch =>
            \A i \in Positions(calls, FetchOps) :
                /\ calls[i].ss = s_sampler /\ s_sampler # NoSampler
                /\ calls[i].ts = t_sampler /\ t_sampler # NoSampler)
    /\ [][(s_sampler' # s_sampler \/ t_sampler' # t_sampler) =>
              /\ lastOp'.name = "MUI_Sampler_Define"
              /\ s_sampler = NoSampler /\ t_sampler = NoSampler
              /\ s_sampler' # NoSampler /\ t_sampler' # NoSampler]_vars

\* a fetch that makes middleware calls after two commits of the cycle
C25_Witness ==
    /\ IsFetch
    /\ total_Sub_Iteration >= 2
    /\ Positions(calls, FetchOps) # {}
    /\ s_sampler.kind = "SamplerRbf"
    /\ t_sampler.kind = "TemporalSamplerExact"

\* C26: only MUI_Fetch changes the applied-load buffer, and only at the DOFs
\* of the fetch DOF list; the entries of all other DOFs are the same after a
\* fetch as before it, no operation changes the area weights, and MUI_Push,
\* MUI_Commit_only and MUI_Sampler_Define leave the whole buffer as it was.
C26_BufferFrame ==
    [][/\ areaf_vec' = areaf_vec
       /\ tF_apply_vec' # tF_apply_vec => lastOp'.name = "MUI_Fetch"
       /\ \A p \in Dofs \ {dofs_fetch_list[i] : i \in 1..Len(dofs_fetch_list)} :
             tF_apply_vec'[p] = tF_apply_vec[p]]_vars

\* a fetch that changed the load of the fetch DOF 1 and left the non-zero
\* load of DOF 2 in place
C26_Witness ==
    /\ IsFetch
    /\ tF_apply_vec[1] # lastOp.before[1]
    /\ tF_apply_vec[2] = Vec(2, 0, -2)
    /\ lastOp.before[2] = Vec(2, 0, -2)

(***************************************************************************)
(* Claims on the fetch-mode code                                           *)
(***************************************************************************)
\* the latest operation made a middleware call on a channel that only the
\* resultant fetch reads
RunsResultant ==
    \E i \in 1..Len(calls) :
        /\ calls[i].op \in FetchOps
        /\ calls[i].chan \in {"CofRX", "CofRY", "CofRZ", "momentX", "momentY", "momentZ"}

\* C28: the sampler the setup constructs is the exact one if and only if the
\* fetch-mode code is 1, the RBF one if and only if the code is 0 and the
\* nearest-neighbour one for every other code; the RBFMatrix files are
\* written if and only if the code is 0; MUI_Fetch runs in resultant mode if
\* and only if the code is 1.  So every resultant fetch call passes the exact
\* sampler and no per-DOF fetch call does.
C28_SamplerMatchesStyle ==
    /\ (SetupRuns /\ ~aborted) =>
          /\ s_sampler # NoSampler
          /\ files.pointID.exists <=> cfg.iMUIFetchMode = 0
    /\ s_sampler # NoSampler =>
          /\ s_sampler.kind = "SamplerExact" <=> cfg.iMUIFetchMode = 1
          /\ s_sampler.kind = "SamplerRbf" <=> cfg.iMUIFetchMode = 0
          /\ s_sampler.kind = "SamplerPseudoNearestNeighbor" <=>
                cfg.iMUIFetchMode \notin {0, 1}
    /\ files # NoFiles => cfg.iMUIFetchMode = 0
    /\ Fetches =>
          /\ RunsResultant <=> cfg.iMUIFetchMode = 1
          /\ \A i \in Positions(calls, FetchOps) :
                /\ calls[i].ss = s_sampler
                /\ calls[i].ss.kind = "SamplerExact" <=> RunsResultant

\* a per-DOF fetch through the nearest-neighbour sampler
C28_Witness ==
    /\ Fetches /\ ~RunsResultant
    /\ Positions(calls, FetchOps) # {}
    /\ cfg.iMUIFetchMode = 2
    /\ s_sampler.kind = "SamplerPseudoNearestNeighbor"

====
